---- MODULE Spec2Model ----
(***************************************************************************)
(* A model of sherdog.py: the lazily populated Organization / Fighter /    *)
(* Event objects, the Fight tuples an Event page is parsed into, the       *)
(* search entry points and the Sherdog facade.                             *)
(*                                                                         *)
(* Python objects live on a heap (a sequence; an address is an index), so  *)
(* that "the same instance" (is) and "equal" (==) are different things.    *)
(* Strings that the code takes apart (ids given as urls, hrefs, queries)   *)
(* are sequences of one-character strings.  The network is the             *)
(* environment: each fetch draws its answer from a bounded set of          *)
(* documents.  Fields of an object named ghost are not program state; they *)
(* record what happened to the object so that properties can speak of it.  *)
(***************************************************************************)
EXTENDS Integers, Sequences, FiniteSets, TLC

\* ---------------------------------------------------------------- bounds
\* ids range over 1..MaxId
MaxId == 2
\* calls of get_* and search_* the client makes
MaxCalls == 2
\* objects that get hydrated (an object may be fetched again at any time)
MaxHydrated == 1
\* undercard rows on an event page
MaxUndercard == 2
\* rows of an organization's event table / a fighter's event links
MaxListed == 1
\* anchors in a search result
MaxResults == 1
\* callers reading concurrently
NumThreads == 2
\* characters of an id_or_url string given to get_*
MaxUrlLen == 4
\* the ids that identifier parsing is checked for: 1..MaxSuffix
MaxSuffix == 12
\* characters of a fight's time string
MaxTimeLen == 4

Kinds == {"Organization", "Fighter", "Event"}
Ids == 1..MaxId

\* ---------------------------------------------------------------- strings
Digits == <<"0", "1", "2", "3", "4", "5", "6", "7", "8", "9">>

IsDigit(c) == \E i \in 1..10 : Digits[i] = c

DigitVal(c) == (CHOOSE i \in 1..10 : Digits[i] = c) - 1

DigitOf(n) == Digits[n + 1]

\* str.rfind('-'): the 0-based index of the last '-', or -1
RFindDash(s) ==
    LET hits == {i \in 1..Len(s) : s[i] = "-"}
    IN  IF hits = {} THEN -1 ELSE (CHOOSE i \in hits : \A j \in hits : j <= i) - 1

\* s[n:] for a 0-based n
SliceFrom(s, n) == SubSeq(s, n + 1, Len(s))

RECURSIVE DecimalValue(_)
DecimalValue(s) ==
    IF s = <<>> THEN 0
    ELSE 10 * DecimalValue(SubSeq(s, 1, Len(s) - 1)) + DigitVal(s[Len(s)])

\* int(s) can raise ValueError
IntOk(s) == s /= <<>> /\ \A i \in 1..Len(s) : IsDigit(s[i])

StartsWith(s, p) == Len(s) >= Len(p) /\ SubSeq(s, 1, Len(p)) = p


RECURSIVE DecimalString(_)
\* '%d' % n, for n >= 0
DecimalString(n) ==
    IF n < 10 THEN <<DigitOf(n)>> ELSE DecimalString(n \div 10) \o <<DigitOf(n % 10)>>

\* the three url shapes, shortened: '/organizations/', '/fighter/', '/events/'
PathPrefix(kind) ==
    CASE kind = "Organization" -> <<"/", "o", "/">>
      [] kind = "Fighter"      -> <<"/", "f", "/">>
      [] kind = "Event"        -> <<"/", "e", "/">>

\* url_path_template % id, e.g. '/fighter/X-%d'
UrlOf(kind, id) == PathPrefix(kind) \o <<"X", "-">> \o DecimalString(id)

\* an href as the site writes it: a slug and the id after the last '-'
Href(kind, id) == PathPrefix(kind) \o <<"a", "-", "b", "-">> \o DecimalString(id)

SeqsUpTo(S, n) == UNION {[1..k -> S] : k \in 0..n}

\* ---------------------------------------------------------------- objects
\* None, where a field holds an address
NoAddr == 0

\* The argument id_or_url is an integer, [int |-> n], or a string, [str |-> s].
IsString(x) == "str" \in DOMAIN x

AsInt(n) == [int |-> n]

AsStr(s) == [str |-> s]

\* The slice taken after the first '-' (find) instead of the last.
IdTextAfterFirstDash(s) ==
    LET hits == {i \in 1..Len(s) : s[i] = "-"}
    IN  IF hits = {} THEN s
        ELSE SubSeq(s, (CHOOSE i \in hits : \A j \in hits : i <= j) + 1, Len(s))

\* id_or_url[id_or_url.rfind('-') + 1:]
IdText(s) == SliceFrom(s, RFindDash(s) + 1)

\* LazySherdogObject.__init__ raises ValueError when int() does
InitRaises(id_or_url) == IsString(id_or_url) /\ ~IntOk(IdText(id_or_url.str))

InitId(id_or_url) ==
    IF IsString(id_or_url) THEN DecimalValue(IdText(id_or_url.str)) ELSE id_or_url.int

\* f, and g where f says nothing: a later setattr wins over an earlier one
Merge(f, g) == [k \in DOMAIN f \cup DOMAIN g |-> IF k \in DOMAIN f THEN f[k] ELSE g[k]]

\* A constructor that drops its keyword arguments.
NewObjectWithoutSeeds(kind, id_or_url, kwargs, origin) ==
    [kind    |-> kind,
     lazy    |-> TRUE,
     attrs   |-> [id  |-> InitId(id_or_url), url |-> UrlOf(kind, InitId(id_or_url))],
     seeds   |-> kwargs,
     origin  |-> origin,
     fetches |-> 0,
     answer  |-> "none",
     page    |-> <<>>,
     load    |-> "none",
     inflight |-> 0]

\* LazySherdogObject.__init__: the keyword arguments become attributes, then
\* id and url are set.  Every call makes a new object.
NewObject(kind, id_or_url, kwargs, origin) ==
    [kind    |-> kind,
     lazy    |-> TRUE,                       \* the class attribute _lazy
     attrs   |-> Merge([id  |-> InitId(id_or_url),
                        url |-> UrlOf(kind, InitId(id_or_url))], kwargs),
     seeds   |-> kwargs,                     \* ghost: the keyword arguments
     origin  |-> origin,                     \* ghost: who constructed it
     fetches |-> 0,                          \* ghost: fetches of its own url
     answer  |-> "none",                     \* ghost: what the Fetcher answered
     page    |-> <<>>,                       \* ghost: the body it returned
     load    |-> "none",                     \* ghost: how _load_properties ended
     inflight |-> 0]                         \* ghost: fetches of its url under way

NoSeeds == [k \in {} |-> 0]

\* LazySherdogObject.__eq__ and __hash__
Eq(o1, o2) == o1.attrs.id = o2.attrs.id

Hash(o) == o.attrs.id

\* ---------------------------------------------------------------- documents
\* What a page holds, as far as the extraction reads it.  An optional element
\* is a sequence of length 0 (find returned None) or 1.

\* a fight: the two fighters' anchors and the final_result span of the left
\* one ("none": no span; anything but draw and win reads as a loss)
Results == {"none", "draw", "win", "loss"}

\* A card is what bounds the fights of the event pages: the ids of the
\* fighters on the left, those on the right, the results and the number of
\* undercard rows.
Card(lefts, rights, results, n) ==
    [lefts |-> lefts, rights |-> rights, results |-> results, n |-> n]

FightRows(card) == [left : {Href("Fighter", i) : i \in card.lefts},
                    right : {Href("Fighter", i) : i \in card.rights},
                    result : card.results]

\* the event pages of these organizations with this card
EventPages(orgs, card) ==
    [detail : {<<[name |-> "page-name", date |-> "page-date",
                  location |-> <<"page-venue", "page-location">>]>>},
     org : {Href("Organization", i) : i \in orgs},
     main : {<<r>> : r \in FightRows(card)},
     subs : SeqsUpTo(FightRows(card), card.n)]

\* An event page without the main-event block
EventPageNoCard ==
    [detail |-> <<[name |-> "page-name", date |-> "page-date",
                   location |-> <<"page-venue", "page-location">>]>>,
     org |-> Href("Organization", 1), main |-> <<>>, subs |-> <<>>]

\* a row of an organization's event table
EventRows == [href : {Href("Event", i) : i \in Ids},
              date : {"row-date"}, name : {"row-name"}, location : {"row-location"}]

OrganizationPages ==
    [name : {<<"page-name">>}, description : {<<"page-description">>},
     table : {<<rows>> : rows \in SeqsUpTo(EventRows, MaxListed)}]

FighterPages ==
    [name : {<<"page-name">>},
     content : {<<links>> : links \in SeqsUpTo({Href("Event", i) : i \in Ids}, MaxListed)}]

\* The body of an error page: none of the elements the extraction looks for.
ErrorPage(kind) ==
    CASE kind = "Organization" -> [name |-> <<>>, description |-> <<>>, table |-> <<>>]
      [] kind = "Fighter"      -> [name |-> <<>>, content |-> <<>>]
      [] kind = "Event"        -> [detail |-> <<>>, org |-> <<>>, main |-> <<>>, subs |-> <<>>]

\* the pages of a kind
Pages(kind, orgs, card) ==
    CASE kind = "Organization" -> OrganizationPages
      [] kind = "Fighter"      -> FighterPages
      [] kind = "Event"        -> EventPages(orgs, card) \cup {EventPageNoCard}


\* What the Fetcher can answer for an object's url.  urllib.urlopen raises
\* IOError when the connection fails ("fault") and returns the body of the
\* response for every HTTP status, the error page of a 404 included
\* ("notfound").
Answers(kind, orgs, card) ==
    {[answer |-> "fault", page |-> <<>>], [answer |-> "notfound", page |-> <<ErrorPage(kind)>>]}
    \cup {[answer |-> "ok", page |-> <<d>>] : d \in Pages(kind, orgs, card)}

\* ---------------------------------------------------------------- extraction
\* Each _load_properties, given the parsed page: the attributes it leaves on
\* the object, the objects it constructs (they go to the addresses after
\* base) and the exception it ends with ("none": it returns).
Loaded(attrs, objs, err) == [attrs |-> attrs, objs |-> objs, err |-> err]

Reverse(s) == [i \in 1..Len(s) |-> s[Len(s) + 1 - i]]

\* Organization._parse_basic_info
OrganizationParseBasicInfo(attrs, dom) ==
    LET a1 == IF dom.name /= <<>> THEN Merge([name |-> dom.name[1]], attrs) ELSE attrs
    IN  IF dom.description /= <<>>
        THEN Merge([description |-> dom.description[1]], a1) ELSE a1

\* Organization._parse_events: table.findAll on None raises AttributeError
OrganizationParseEvents(attrs, dom, base) ==
    IF dom.table = <<>> THEN Loaded(attrs, <<>>, "AttributeError")
    ELSE LET rows == dom.table[1]
             events == [i \in 1..Len(rows) |->
                          NewObject("Event", AsStr(rows[i].href),
                                    [date |-> rows[i].date, location |-> rows[i].location,
                                     name |-> rows[i].name], "parse")]
         IN  Loaded(Merge([events |-> [i \in 1..Len(rows) |-> base + i]], attrs),
                    events, "none")

\* Organization._load_properties
OrganizationLoadProperties(self, attrs, dom, base) ==
    OrganizationParseEvents(OrganizationParseBasicInfo(attrs, dom), dom, base)

\* Fighter._parse_basic_info (of its fields, the name)
FighterParseBasicInfo(attrs, dom) ==
    IF dom.name /= <<>> THEN Merge([name |-> dom.name[1]], attrs) ELSE attrs

\* Fighter._parse_events
FighterParseEvents(attrs, dom, base) ==
    IF dom.content = <<>> THEN Loaded(attrs, <<>>, "none")
    ELSE LET links == dom.content[1]
         IN  Loaded(Merge([events |-> [i \in 1..Len(links) |-> base + i]], attrs),
                    [i \in 1..Len(links) |->
                       NewObject("Event", AsStr(links[i]), NoSeeds, "parse")],
                    "none")

\* Fighter._load_properties
FighterLoadProperties(self, attrs, dom, base) ==
    FighterParseEvents(FighterParseBasicInfo(attrs, dom), dom, base)

\* The Fight namedtuple (of its fields: event, fighters, winner)
Fight(event, fighters, winner) ==
    [event |-> event, fighters |-> fighters, winner |-> winner]

\* Event._fight_winner, on the text of the result span
FightWinner(result, left, right) ==
    IF result = "draw" THEN NoAddr
    ELSE IF result = "win" THEN left
    ELSE right

\* A _parse_main_fight that reads a field the left fighter does not have yet,
\* which hydrates that fighter.
ParseMainFightHydrating(self, block, base) ==
    LET left_fighter  == NewObject("Fighter", AsStr(block.left), [name |-> "anchor-name"], "parse")
        right_fighter == NewObject("Fighter", AsStr(block.right), [name |-> "anchor-name"], "parse")
        fighters == <<base + 1, base + 2>>
    IN  [fight |-> IF block.result = "none"
                   THEN Fight(self, fighters, NoAddr)
                   ELSE Fight(self, fighters, FightWinner(block.result, base + 1, base + 2)),
         objs  |-> <<[left_fighter EXCEPT !.lazy = FALSE, !.fetches = 1, !.load = "done"],
                     right_fighter>>]

\* Event._parse_main_fight and Event._parse_sub_fight read different markup
\* and build the Fight the same way: two new Fighter objects seeded with the
\* anchors' text, no winner when there is no result span.
ParseMainFight(self, block, base) ==
    LET left_fighter  == NewObject("Fighter", AsStr(block.left), [name |-> "anchor-name"], "parse")
        right_fighter == NewObject("Fighter", AsStr(block.right), [name |-> "anchor-name"], "parse")
        fighters == <<base + 1, base + 2>>
    IN  [fight |-> IF block.result = "none"
                   THEN Fight(self, fighters, NoAddr)
                   ELSE Fight(self, fighters, FightWinner(block.result, base + 1, base + 2)),
         objs  |-> <<left_fighter, right_fighter>>]

ParseSubFight(self, row, base) ==
    LET left_fighter  == NewObject("Fighter", AsStr(row.left), [name |-> "anchor-name"], "parse")
        right_fighter == NewObject("Fighter", AsStr(row.right), [name |-> "anchor-name"], "parse")
        fighters == <<base + 1, base + 2>>
    IN  [fight |-> IF row.result = "none"
                   THEN Fight(self, fighters, NoAddr)
                   ELSE Fight(self, fighters, FightWinner(row.result, base + 1, base + 2)),
         objs  |-> <<left_fighter, right_fighter>>]

\* Event._parse_sub_fights: the rows in page order
ParseSubFights(self, rows, base) ==
    [i \in 1..Len(rows) |-> ParseSubFight(self, rows[i], base + 2 * (i - 1))]

RECURSIVE Flatten(_)
Flatten(ss) == IF ss = <<>> THEN <<>> ELSE Head(ss) \o Flatten(Tail(ss))

\* The fight card without its last step.
AssembleFightsUnreversed(main, subs) == <<main>> \o subs

\* self.fights = [main]; self.fights.extend(subs); self.fights.reverse()
AssembleFights(main, subs) == Reverse(<<main>> \o subs)

\* Event._load_properties: detail.span on None raises AttributeError before
\* anything is set; a page without the main-event block raises it after name,
\* date, venue, location and organization are set.
EventLoadProperties(self, attrs, dom, base) ==
    IF dom.detail = <<>> THEN Loaded(attrs, <<>>, "AttributeError")
    ELSE
      LET detail == dom.detail[1]
          org == NewObject("Organization", AsStr(dom.org), [name |-> "org-name"], "parse")
          a1 == Merge([name |-> detail.name, date |-> detail.date,
                       venue |-> detail.location[1], location |-> detail.location[2],
                       organization |-> base + 1], attrs)
      IN  IF dom.main = <<>> THEN Loaded(a1, <<org>>, "AttributeError")
          ELSE
            LET main == ParseMainFight(self, dom.main[1], base + 1)
                subs == ParseSubFights(self, dom.subs, base + 3)
                fights == AssembleFights(main.fight, [i \in 1..Len(subs) |-> subs[i].fight])
            IN  Loaded(Merge([fights |-> fights], a1),
                       <<org>> \o main.objs \o Flatten([i \in 1..Len(subs) |-> subs[i].objs]),
                       "none")

\* the _load_properties of the object's class, after the fetch
LoadProperties(self, o, answer, base) ==
    IF answer.answer = "fault" THEN Loaded(o.attrs, <<>>, "IOError")
    ELSE CASE o.kind = "Organization" ->
                OrganizationLoadProperties(self, o.attrs, answer.page[1], base)
           [] o.kind = "Fighter" ->
                FighterLoadProperties(self, o.attrs, answer.page[1], base)
           [] o.kind = "Event" ->
                EventLoadProperties(self, o.attrs, answer.page[1], base)


\* ---------------------------------------------------------------- search
Lower(c) == IF c = "A" THEN "a" ELSE c

\* urllib.quote(query.lower()), over the letters and the space
QuoteChar(c) == IF c = " " THEN <<"%", "2", "0">> ELSE <<c>>

NormalizeQuery(query) == Flatten([i \in 1..Len(query) |-> QuoteChar(Lower(query[i]))])

\* search_url_path_template % query, shortened like the other paths
SearchPath(kind, query) ==
    (IF kind = "Organization" THEN <<"/", "s", "/", "?", "q", "=">>
                              ELSE <<"/", "s", "?", "S", "=">>) \o NormalizeQuery(query)

Queries == {<<>>, <<"A", " ">>}

\* what a search page can hold: no result table / undecodable JSON, or up to
\* MaxResults anchors (of any kind) / organization dicts
AnyHref == {Href(k, i) : k \in Kinds, i \in Ids}

SearchAnswers(kind) ==
    {[answer |-> "fault", found |-> <<>>], [answer |-> "malformed", found |-> <<>>]}
    \cup (IF kind = "Organization"
          THEN {[answer |-> "ok", found |-> c] :
                  c \in SeqsUpTo([id : Ids, name : {"json-name"}], MaxResults)}
          ELSE {[answer |-> "ok", found |-> u] : u \in SeqsUpTo(AnyHref, MaxResults)})

\* filter(_FIGHTER_URL_RE.match, urls) / filter(_EVENTS_URL_RE.match, urls)
RECURSIVE FilterUrls(_, _)
FilterUrls(kind, urls) ==
    IF urls = <<>> THEN <<>>
    ELSE (IF StartsWith(Head(urls), PathPrefix(kind)) THEN <<Head(urls)>> ELSE <<>>)
         \o FilterUrls(kind, Tail(urls))

\* Organization.search, Fighter.search, Event.search after the fetch: the
\* objects of the result list and the exception ("none": the list is returned)
SearchResult(kind, answer) ==
    IF answer.answer = "fault" THEN [objs |-> <<>>, err |-> "IOError"]
    ELSE IF answer.answer = "malformed"
    THEN [objs |-> <<>>,
          err |-> IF kind = "Organization" THEN "ValueError" ELSE "AttributeError"]
    ELSE IF kind = "Organization"
    THEN [objs |-> [i \in 1..Len(answer.found) |->
                      NewObject(kind, AsInt(answer.found[i].id),
                                answer.found[i], "search")],
          err |-> "none"]
    ELSE LET urls == FilterUrls(kind, answer.found)
         IN  [objs |-> [i \in 1..Len(urls) |-> NewObject(kind, AsStr(urls[i]), NoSeeds, "search")],
              err |-> "none"]

\* ---------------------------------------------------------------- state
VARIABLES
    heap,        \* the objects constructed so far; an address is an index
    calls,       \* how many get_* and search_* calls the client has made
    fetchCount,  \* how often Sherdog.fetch_url was invoked
    last,        \* the last call the client made and how it ended
    thr          \* the callers of the concurrent specification

vars == <<heap, calls, fetchCount, last, thr>>

Threads == 1..NumThreads

Addrs == DOMAIN heap

\* The Fetcher can be asked for an object's url: the object was fetched
\* before, or fewer than MaxHydrated objects were.
MayFetch(a) ==
    \/ heap[a].fetches > 0
    \/ Cardinality({b \in Addrs : heap[b].fetches > 0}) < MaxHydrated

\* a call of the client: arg holds the id_or_url of a get_* or the timestr of
\* a _parse_fight_time (a sequence of length 0 where the call has none)
Call(op, kind, addr, key, path, result, value, issued, arg) ==
    [op |-> op, kind |-> kind, addr |-> addr, key |-> key, path |-> path,
     result |-> result, value |-> value, issued |-> issued, arg |-> arg]

\* a caller: where it is in obj.key, the object and the key, its local dom
\* (answer), how its read ended and (ghost) the state it found the object in
Idle == [pc |-> "idle", addr |-> NoAddr, key |-> "", answer |-> <<>>,
         result |-> "", seen |-> ""]

Init ==
    /\ heap = <<>>
    /\ calls = 0
    /\ fetchCount = 0
    /\ last = Call("none", "", NoAddr, "", <<>>, "", <<>>, 0, <<>>)
    /\ thr = [t \in Threads |-> Idle]

\* the arguments the client passes to get_*: an id, or a url ending in one,
\* or a string that does not
IdOrUrls ==
    {AsInt(i) : i \in Ids} \cup {AsStr(<<"a", "-">> \o DecimalString(i)) : i \in Ids}
    \cup {AsStr(<<"a", "-", "b">>)}

\* Sherdog.get_fighter, get_event, get_organization
Get(kind, id_or_url) ==
    /\ calls < MaxCalls
    /\ calls' = calls + 1
    /\ IF InitRaises(id_or_url)
       THEN /\ last' = Call("get", kind, NoAddr, "", <<>>, "ValueError", <<>>, 0,
                            <<id_or_url>>)
            /\ UNCHANGED heap
       ELSE /\ heap' = Append(heap, NewObject(kind, id_or_url, NoSeeds, "get"))
            /\ last' = Call("get", kind, Len(heap) + 1, "", <<>>, "ok", <<Len(heap) + 1>>, 0,
                            <<id_or_url>>)
    /\ UNCHANGED <<fetchCount, thr>>

\* Sherdog.search_fighters, search_events, search_organizations
Search(kind, query) ==
    /\ calls < MaxCalls
    /\ calls' = calls + 1
    /\ \E answer \in SearchAnswers(kind) :
         LET r == SearchResult(kind, answer)
         IN  /\ heap' = heap \o r.objs
             /\ fetchCount' = fetchCount + 1
             /\ last' = Call("search", kind, NoAddr, "", SearchPath(kind, query),
                             IF r.err = "none" THEN "ok" ELSE r.err,
                             IF r.err = "none"
                             THEN <<[i \in 1..Len(r.objs) |-> Len(heap) + i]>> ELSE <<>>,
                             1, <<>>)
    /\ UNCHANGED thr

\* A __getattr__ that forgets to clear _lazy.
SetNotLazyForgotten(o) == o

\* self._lazy = False
SetNotLazy(o) == [o EXCEPT !.lazy = FALSE]

\* the object after its _load_properties ran with the Fetcher's answer
Hydrated(o, answer, r) ==
    [SetNotLazy(o) EXCEPT !.attrs = r.attrs, !.fetches = @ + 1,
                          !.answer = answer.answer, !.page = answer.page,
                          !.load = IF r.err = "none" THEN "done" ELSE "raised"]

\* A __getattr__ without its first test.
GetAttrRaisesNever(o) == FALSE

\* __getattr__'s first test: if not self._lazy: raise AttributeError(key)
GetAttrRaises(o) == ~o.lazy

\* how obj.key ends once _load_properties has ended with err: the exception
\* of the load, or getattr(self, key), which raises AttributeError from
\* __getattr__ (the object is no longer lazy) when the key is still missing
AfterLoad(attrs, key, err) ==
    IF err /= "none" THEN err
    ELSE IF key \in DOMAIN attrs THEN "ok" ELSE "AttributeError"

\* obj.key: the attribute if the instance has it; otherwise __getattr__,
\* which raises AttributeError on an object that is not lazy and otherwise
\* clears _lazy, runs _load_properties and looks the key up again.
\* The event pages the Fetcher may answer with are of these organizations and
\* have this card.
Read(a, key, orgs, card) ==
    LET o == heap[a]
    IN  /\ UNCHANGED <<calls, thr>>
        /\ IF key \in DOMAIN o.attrs
           THEN /\ last' = Call("read", o.kind, a, key, <<>>, "ok", <<o.attrs[key]>>, 0, <<>>)
                /\ UNCHANGED <<heap, fetchCount>>
           ELSE IF GetAttrRaises(o)
           THEN /\ last' = Call("read", o.kind, a, key, <<>>, "AttributeError", <<>>, 0, <<>>)
                /\ UNCHANGED <<heap, fetchCount>>
           ELSE /\ MayFetch(a)
                /\ \E answer \in Answers(o.kind, orgs, card) :
                     LET r == LoadProperties(a, o, answer, Len(heap))
                         res == AfterLoad(r.attrs, key, r.err)
                     IN  /\ heap' = [heap EXCEPT ![a] = Hydrated(o, answer, r)] \o r.objs
                         /\ fetchCount' = fetchCount + 1
                         /\ last' = Call("read", o.kind, a, key, o.attrs.url, res,
                                         IF res = "ok" THEN <<r.attrs[key]>> ELSE <<>>, 1, <<>>)

\* The client reads name, which a seed or a page may give, and foo, which no
\* page has; the event pages have no undercard and a winner on the left.
Next ==
    \/ \E kind \in Kinds, x \in IdOrUrls : Get(kind, x)
    \/ \E kind \in Kinds, query \in Queries : Search(kind, query)
    \/ \E a \in Addrs, key \in {"name", "foo"} : Read(a, key, Ids, Card(Ids, Ids, {"win"}, 0))

Spec == Init /\ [][Next]_vars


\* ---------------------------------------------------------------- one reference
\* The client makes one call, for an object of any kind or for the seeded
\* objects of an organization search, and reads what it got and whatever the
\* hydration of that constructs.
GetOne(kind, id_or_url) == calls = 0 /\ Get(kind, id_or_url)

SearchOne(kind, query) == calls = 0 /\ Search(kind, query)

ReadLazy(a, key) == Read(a, key, Ids, Card(Ids, Ids, {"win"}, 0))

NextLazy ==
    \/ \E kind \in Kinds, x \in IdOrUrls : GetOne(kind, x)
    \/ \E query \in Queries : SearchOne("Organization", query)
    \/ \E a \in Addrs, key \in {"name", "foo"} : ReadLazy(a, key)

SpecLazy == Init /\ [][NextLazy]_vars

\* ---------------------------------------------------------------- one event
\* The reads of Event 1, against every event page of organization 1 with up
\* to MaxUndercard undercard rows, every result, fighter 1 on the left and any
\* fighter (1 too) on the right.
GetEvent(id_or_url) ==
    /\ calls = 0
    /\ ~InitRaises(id_or_url)
    /\ InitId(id_or_url) = 1
    /\ Get("Event", id_or_url)

ReadEvent(a, key) == heap[a].kind = "Event" /\ Read(a, key, {1}, Card({1}, Ids, Results, MaxUndercard))

NextEvent ==
    \/ \E x \in IdOrUrls : GetEvent(x)
    \/ \E a \in Addrs : ReadEvent(a, "fights")

SpecEvent == Init /\ [][NextEvent]_vars

\* ---------------------------------------------------------------- identifiers
\* One get_* call with any integer up to MaxSuffix or any string of up to
\* MaxUrlLen characters: letters, '-', '/' and the digits up to MaxId.
UrlChars == {"a", "-", "/"} \cup {DigitOf(i) : i \in 0..MaxId}

IdArgs ==
    {AsInt(n) : n \in 1..MaxSuffix} \cup {AsStr(s) : s \in SeqsUpTo(UrlChars, MaxUrlLen)}

GetById(kind, id_or_url) == Get(kind, id_or_url)

\* the client makes one call
NextIds ==
    /\ calls = 0
    /\ \E kind \in Kinds, x \in IdArgs : GetById(kind, x)

SpecIds == Init /\ [][NextIds]_vars

\* ---------------------------------------------------------------- fight time
\* Event._parse_fight_time, on None (a sequence of length 0) or a string:
\* None for a false or colon-free timestr; otherwise split(':', 1) and int()
\* of both parts, which raises ValueError, into a timedelta (here: its
\* seconds).
ParseFightTime(timestr) ==
    IF timestr = <<>> \/ timestr[1] = <<>> \/ \A i \in DOMAIN timestr[1] : timestr[1][i] /= ":"
    THEN [err |-> "none", value |-> <<>>]
    ELSE LET s == timestr[1]
             c == CHOOSE i \in DOMAIN s : s[i] = ":" /\ \A j \in 1..(i - 1) : s[j] /= ":"
             minutes == SubSeq(s, 1, c - 1)
             seconds == SubSeq(s, c + 1, Len(s))
         IN  IF IntOk(minutes) /\ IntOk(seconds)
             THEN [err |-> "none",
                   value |-> <<60 * DecimalValue(minutes) + DecimalValue(seconds)>>]
             ELSE [err |-> "ValueError", value |-> <<>>]

TimeChars == {":", "0", "1", "a"}

TimeStrs == {<<>>} \cup {<<s>> : s \in SeqsUpTo(TimeChars, MaxTimeLen)}

\* a call of _parse_fight_time, as the parsing of a fight makes it
ParseTime(timestr) ==
    /\ LET r == ParseFightTime(timestr)
       IN  last' = Call("time", "Event", NoAddr, "", <<>>,
                        IF r.err = "none" THEN "ok" ELSE r.err, r.value, 0, <<timestr>>)
    /\ UNCHANGED <<heap, calls, fetchCount, thr>>

NextTime == \E timestr \in TimeStrs : ParseTime(timestr)

SpecTime == Init /\ [][NextTime]_vars

\* ---------------------------------------------------------------- callers
\* obj.key by several callers at once.  Threads switch between bytecodes, so
\* the test of _lazy, its clearing, the fetch and each setattr of the
\* extraction are steps of their own.  The objects read are Fighters.

\* ghost: the state a caller finds an object in
ObjState(o) ==
    IF o.lazy THEN "unhydrated" ELSE IF o.load = "none" THEN "hydrating" ELSE "hydrated"

Goto(t, pc) == thr' = [thr EXCEPT ![t].pc = pc]

Finish(t, result, seen) ==
    thr' = [thr EXCEPT ![t].pc = "idle", ![t].result = result, ![t].seen = seen]

ConcGet(id_or_url) ==
    /\ ~InitRaises(id_or_url)
    /\ Get("Fighter", id_or_url)

\* the attribute lookup that comes before __getattr__
TBegin(t, a, key) ==
    /\ thr[t].pc = "idle"
    /\ heap[a].kind = "Fighter"
    /\ thr' = [thr EXCEPT ![t] =
                 IF key \in DOMAIN heap[a].attrs
                 THEN [Idle EXCEPT !.addr = a, !.key = key, !.result = "ok",
                                   !.seen = ObjState(heap[a])]
                 ELSE [Idle EXCEPT !.addr = a, !.key = key, !.pc = "getattr"]]
    /\ UNCHANGED <<heap, calls, fetchCount, last>>

\* if not self._lazy: raise AttributeError(key)
TTest(t) ==
    /\ thr[t].pc = "getattr"
    /\ IF GetAttrRaises(heap[thr[t].addr])
       THEN Finish(t, "AttributeError", ObjState(heap[thr[t].addr]))
       ELSE Goto(t, "clear")
    /\ UNCHANGED <<heap, calls, fetchCount, last>>

\* self._lazy = False
TClear(t) ==
    /\ thr[t].pc = "clear"
    /\ heap' = [heap EXCEPT ![thr[t].addr] = SetNotLazy(@)]
    /\ Goto(t, "fetch")
    /\ UNCHANGED <<calls, fetchCount, last>>

\* _load_properties calls Sherdog.fetch_and_parse_url(self.url)
TFetch(t) ==
    /\ thr[t].pc = "fetch"
    /\ MayFetch(thr[t].addr)
    /\ fetchCount' = fetchCount + 1
    /\ heap' = [heap EXCEPT ![thr[t].addr].fetches = @ + 1, ![thr[t].addr].inflight = @ + 1]
    /\ Goto(t, "wait")
    /\ UNCHANGED <<calls, last>>

\* the Fetcher answers
TFetched(t) ==
    /\ thr[t].pc = "wait"
    /\ \E answer \in Answers("Fighter", {}, Card({}, {}, {}, 0)) :
         /\ heap' = [heap EXCEPT ![thr[t].addr].inflight = @ - 1,
                                 ![thr[t].addr].answer = answer.answer,
                                 ![thr[t].addr].page = answer.page,
                                 ![thr[t].addr].load =
                                     IF answer.answer = "fault" THEN "raised" ELSE @]
         /\ IF answer.answer = "fault"
            THEN Finish(t, "IOError", ObjState(heap[thr[t].addr]))
            ELSE thr' = [thr EXCEPT ![t].pc = "basic", ![t].answer = answer.page]
    /\ UNCHANGED <<calls, fetchCount, last>>

\* self._parse_basic_info(dom)
TBasicInfo(t) ==
    /\ thr[t].pc = "basic"
    /\ heap' = [heap EXCEPT ![thr[t].addr].attrs = FighterParseBasicInfo(@, thr[t].answer[1])]
    /\ Goto(t, "events")
    /\ UNCHANGED <<calls, fetchCount, last>>

\* self._parse_events(dom), with which _load_properties returns
TEvents(t) ==
    /\ thr[t].pc = "events"
    /\ LET a == thr[t].addr
           r == FighterParseEvents(heap[a].attrs, thr[t].answer[1], Len(heap))
       IN  heap' = [heap EXCEPT ![a].attrs = r.attrs, ![a].load = "done"] \o r.objs
    /\ Goto(t, "lookup")
    /\ UNCHANGED <<calls, fetchCount, last>>

\* return getattr(self, key)
TLookup(t) ==
    /\ thr[t].pc = "lookup"
    /\ Finish(t, AfterLoad(heap[thr[t].addr].attrs, thr[t].key, "none"),
              ObjState(heap[thr[t].addr]))
    /\ UNCHANGED <<heap, calls, fetchCount, last>>

NextConc ==
    \/ \E x \in IdOrUrls : ConcGet(x)
    \/ \E t \in Threads, a \in Addrs, key \in {"name", "foo"} : TBegin(t, a, key)
    \/ \E t \in Threads :
         \/ TTest(t)
         \/ TClear(t)
         \/ TFetch(t)
         \/ TFetched(t)
         \/ TBasicInfo(t)
         \/ TEvents(t)
         \/ TLookup(t)

SpecConc == Init /\ [][NextConc]_vars

\* ---------------------------------------------------------------- properties
\* Every step of Next sets last to the call it made, so in a step last'
\* names the call and the unprimed variables are the state it was made in.
ReadOf(a, key) == last.op = "read" /\ last.addr = a /\ last.key = key

SameEntity(o1, o2) == o1.kind = o2.kind /\ o1.attrs.id = o2.attrs.id

\* C1. Identity convergence: two references to the same (kind, id), however
\* they were obtained (get, search, construction while a page is parsed), are
\* the same instance.
IdentityConvergence ==
    \A a, b \in Addrs : SameEntity(heap[a], heap[b]) => a = b

\* C2. Sticky absence: when the fetch for an entity signalled not-found, the
\* read that triggered it and every later read of that entity raise the
\* kind's DoesNotExist, and the entity's url is fetched no more than that once.
StickyAbsence ==
    \A a \in Addrs :
        heap[a].answer = "notfound" =>
            /\ heap[a].fetches = 1
            /\ last.op = "read" /\ last.addr = a => last.result = "DoesNotExist"

\* C3. Hydration idempotence: an instance's document is fetched and its
\* properties are loaded at most once; once it is hydrated a read of it issues
\* no fetch, changes nothing and returns the value the instance holds.
HydrationIdempotence ==
    [][\A a \in Addrs :
          /\ heap'[a].fetches <= 1
          /\ heap[a].load = "done" =>
               /\ heap'[a] = heap[a]
               /\ last'.op = "read" /\ last'.addr = a =>
                    /\ last'.issued = 0
                    /\ fetchCount' = fetchCount
                    /\ last'.result = "ok" => last'.value = <<heap[a].attrs[last'.key]>>]_vars

\* a hydrated instance was read again, the Fetcher ready to be asked again
HydrationIdempotenceWitness ==
    \E a \in Addrs :
        /\ heap[a].load = "done"
        /\ heap[a].fetches = 1
        /\ ReadOf(a, "name")
        /\ last.issued = 0
        /\ last.result = "ok"
        /\ MayFetch(a)

\* C5. A search with an empty query raises ValueError and does not invoke the
\* Fetcher, whatever the kind.
EmptyQueryRejected ==
    \A kind \in Kinds :
        last.op = "search" /\ last.kind = kind /\ last.path = SearchPath(kind, <<>>) =>
            last.result = "ValueError" /\ last.issued = 0

EqualityByKindAndId ==
    \A a, b \in Addrs :
        /\ Eq(heap[a], heap[b]) <=> SameEntity(heap[a], heap[b])
        /\ Hash(heap[a]) = Hash(heap[b]) <=> SameEntity(heap[a], heap[b])

\* C10. A read of a field that was given as a seed, on an instance that has
\* not been hydrated, returns the seeded value, issues no fetch and leaves the
\* instance as it is; a read that issues a fetch is a read of a field the
\* instance does not have.
SeededRead ==
    [][\A a \in Addrs :
          last'.op = "read" /\ last'.addr = a =>
            /\ heap[a].lazy /\ last'.key \in DOMAIN heap[a].seeds =>
                 /\ last'.result = "ok"
                 /\ last'.value = <<heap[a].seeds[last'.key]>>
                 /\ last'.issued = 0
                 /\ fetchCount' = fetchCount
                 /\ heap' = heap
            /\ last'.issued > 0 => last'.key \notin DOMAIN heap[a].attrs]_vars

\* the name of an Event that an organization's listing seeded was read, the
\* Event still unhydrated
SeededReadWitness ==
    \E a \in Addrs :
        /\ heap[a].kind = "Event"
        /\ heap[a].origin = "parse"
        /\ heap[a].seeds = [date |-> "row-date", location |-> "row-location", name |-> "row-name"]
        /\ ReadOf(a, "name")
        /\ last.value = <<"row-name">>
        /\ heap[a].lazy
        /\ heap[a].fetches = 0


\* the Fight that parsing makes of a block or row of event a's page
IsFightOf(f, a, row) ==
    /\ f.event = a
    /\ Len(f.fighters) = 2
    /\ heap[f.fighters[1]].kind = "Fighter"
    /\ heap[f.fighters[2]].kind = "Fighter"
    /\ heap[f.fighters[1]].attrs.id = InitId(AsStr(row.left))
    /\ heap[f.fighters[2]].attrs.id = InitId(AsStr(row.right))
    /\ f.winner = CASE row.result \in {"none", "draw"} -> NoAddr
                    [] row.result = "win" -> f.fighters[1]
                    [] OTHER -> f.fighters[2]

\* C8. Order invariant: an Event hydrated from a page with a main-event block
\* and N undercard rows has N+1 fights, the last the main event's and the
\* first N the undercard's in reverse of their order on the page.
OrderInvariant ==
    \A a \in Addrs :
        heap[a].kind = "Event" /\ heap[a].load = "done" =>
            LET dom == heap[a].page[1]
                N == Len(dom.subs)
                fights == heap[a].attrs.fights
            IN  /\ Len(fights) = N + 1
                /\ IsFightOf(fights[N + 1], a, dom.main[1])
                /\ \A i \in 1..N : IsFightOf(fights[i], a, dom.subs[N + 1 - i])

\* an Event was hydrated from a page with two undercard rows, its three
\* fights all different, and its fights were read
OrderInvariantWitness ==
    \E a \in Addrs :
        /\ heap[a].kind = "Event" /\ heap[a].load = "done"
        /\ Len(heap[a].page[1].subs) = 2
        /\ heap[a].page[1].subs[1] /= heap[a].page[1].subs[2]
        /\ heap[a].page[1].main[1] \notin {heap[a].page[1].subs[1], heap[a].page[1].subs[2]}
        /\ ReadOf(a, "fights")
        /\ last.result = "ok"
        /\ Len(last.value[1]) = 3

\* C9. Fight symmetry: every Fight has exactly two fighters, their ids
\* differ, and its winner is None or one of the two.
FightSymmetry ==
    \A a \in Addrs :
        heap[a].kind = "Event" /\ "fights" \in DOMAIN heap[a].attrs =>
            \A i \in DOMAIN heap[a].attrs.fights :
                LET f == heap[a].attrs.fights[i]
                IN  /\ Len(f.fighters) = 2
                    /\ heap[f.fighters[1]].attrs.id /= heap[f.fighters[2]].attrs.id
                    /\ f.winner \in {NoAddr, f.fighters[1], f.fighters[2]}

\* the string is a numeral of n, zeros in front allowed, alone or after a '-'
SuffixIs(s, n) ==
    \E k \in 0..(Len(s) - 1) :
        /\ k = 0 \/ s[k] = "-"
        /\ \E z \in k..(Len(s) - 1) :
             /\ \A i \in (k + 1)..z : s[i] = "0"
             /\ SubSeq(s, z + 1, Len(s)) = DecimalString(n)

\* the argument names the id n: the integer n, or a string that ends in it
Names(id_or_url, n) ==
    IF IsString(id_or_url) THEN SuffixIs(id_or_url.str, n) ELSE id_or_url.int = n

FaultKeepsUnhydrated ==
    \A a \in Addrs :
        /\ ~heap[a].lazy => heap[a].answer = "notfound" \/ heap[a].load = "done"
        /\ last.op = "read" /\ last.addr = a /\ last.issued = 1 /\ heap[a].load = "raised"
             => last.result \in {"IOError", "AttributeError"}

\* the entities an object's attributes refer to
Refs(attrs) ==
    (IF "organization" \in DOMAIN attrs THEN {attrs.organization} ELSE {})
    \cup (IF "events" \in DOMAIN attrs
          THEN {attrs.events[i] : i \in DOMAIN attrs.events} ELSE {})
    \cup (IF "fights" \in DOMAIN attrs
          THEN UNION {{attrs.fights[i].event, attrs.fights[i].fighters[1],
                       attrs.fights[i].fighters[2]} : i \in DOMAIN attrs.fights}
          ELSE {})

\* C13. Hydration does not cascade: a read issues at most one fetch, and a
\* read that hydrates an entity issues exactly one, for that entity's own url;
\* it changes no other entity, and every entity it constructs and every other
\* entity the hydrated one refers to is unhydrated and unfetched when the read
\* returns.
HydrationDoesNotCascade ==
    [][\A a \in Addrs :
          last'.op = "read" /\ last'.addr = a =>
            /\ last'.issued \in {0, 1}
            /\ fetchCount' = fetchCount + last'.issued
            /\ heap'[a].fetches = heap[a].fetches + last'.issued
            /\ last'.issued = 1 => last'.path = heap[a].attrs.url
            /\ \A b \in Addrs \ {a} : heap'[b] = heap[b]
            /\ \A b \in DOMAIN heap' \ Addrs :
                 heap'[b].lazy /\ heap'[b].fetches = 0 /\ heap'[b].load = "none"
            /\ last'.issued = 1 =>
                 \A b \in Refs(heap'[a].attrs) \ {a} :
                     b \in DOMAIN heap' /\ heap'[b].lazy /\ heap'[b].fetches = 0]_vars

\* the read of an Event's name hydrated it with one fetch; its fight refers
\* back to the Event, and its organization and two fighters are unhydrated
HydrationDoesNotCascadeWitness ==
    \E a \in Addrs :
        /\ heap[a].kind = "Event" /\ heap[a].load = "done"
        /\ ReadOf(a, "name") /\ last.issued = 1 /\ last.result = "ok"
        /\ fetchCount = 1
        /\ heap[a].attrs.fights[1].event = a
        /\ Cardinality(Refs(heap[a].attrs) \ {a}) = 3
        /\ \A b \in Refs(heap[a].attrs) \ {a} : heap[b].lazy /\ heap[b].fetches = 0

\* the string is digits, a colon, digits
IsMinSec(s) ==
    \E c \in DOMAIN s :
        /\ s[c] = ":"
        /\ c > 1 /\ c < Len(s)
        /\ \A i \in DOMAIN s \ {c} : IsDigit(s[i])

\* C14. Duration parsing never raises: a string MM:SS gives the duration of
\* MM minutes and SS seconds, and every other input (None, empty, without a
\* colon, with a colon and parts that are not numbers) gives None.
FightTimeNeverRaises ==
    last.op = "time" =>
        LET timestr == last.arg[1]
        IN  /\ last.result = "ok"
            /\ IF timestr /= <<>> /\ IsMinSec(timestr[1])
               THEN \E c \in DOMAIN timestr[1] :
                      /\ timestr[1][c] = ":"
                      /\ last.value = <<60 * DecimalValue(SubSeq(timestr[1], 1, c - 1))
                                        + DecimalValue(SubSeq(timestr[1], c + 1, Len(timestr[1])))>>
               ELSE last.value = <<>>

\* C4. Concurrent reads of one unhydrated entity: never more than one fetch
\* of its url under way, never a second fetch, and no caller's read ends on
\* an entity that is being hydrated.
AtomicHydration ==
    \A a \in Addrs :
        /\ heap[a].inflight <= 1
        /\ heap[a].fetches <= 1
        /\ \A t \in Threads :
             thr[t].addr = a /\ thr[t].pc = "idle" /\ thr[t].result /= ""
                => thr[t].seen /= "hydrating"

====
